---- MODULE Spec2Model ----
(***************************************************************************)
(* Model of dingo/gw/SVD.py: the SVDBasis class (generate_basis,           *)
(* test_basis, compress, decompress, from_file, from_dictionary) and the   *)
(* ApplySVD transform operator.                                            *)
(*                                                                         *)
(* Arrays are exact: a matrix is its shape and its complex entries, a      *)
(* complex number is a pair <<re, im>> of integers.  A training matrix is  *)
(* represented by its thin singular value decomposition (spectrum s and    *)
(* right singular vectors Vh), which is what the two library routines the  *)
(* code calls hand back; floating-point error is not modelled.             *)
(*                                                                         *)
(* The program is sequential: one call runs at a time.  `call` holds the   *)
(* call that has just completed (its arguments, what it returned or        *)
(* raised, and the basis as it was before the call) until the caller       *)
(* moves on.                                                               *)
(***************************************************************************)
EXTENDS Integers, Sequences, FiniteSets, TLC

VARIABLES V, Vh, s, n, transform, call

vars == <<V, Vh, s, n, transform, call>>

\* ------------------------------------------------------------------ bounds

MaxSamples == 2
MaxFeatures == 2
MaxN == 2
MaxLevels == 2
MaxTestRows == 1

\* ------------------------------------------------------------ Python values

\* An optional value: None, or Some(x) holding x.
None == <<>>

Some(x) == <<x>>

\* The value an optional holds.
Val(o) == o[1]

\* No exception raised; no outfile given.
NoException == "None"

NoOutfile == "None"

Min(a, b) == IF a <= b THEN a ELSE b

Max(a, b) == IF a >= b THEN a ELSE b

\* ------------------------------------------------------- complex arithmetic

CZero == <<0, 0>>

COne == <<1, 0>>

CI == <<0, 1>>

CAdd(x, y) == <<x[1] + y[1], x[2] + y[2]>>

CSub(x, y) == <<x[1] - y[1], x[2] - y[2]>>

CMul(x, y) == <<x[1] * y[1] - x[2] * y[2], x[1] * y[2] + x[2] * y[1]>>

Conj(x) == <<x[1], 0 - x[2]>>

\* |x|^2
AbsSq(x) == x[1] * x[1] + x[2] * x[2]

\* ------------------------------------------------------------------ arrays

\* A 2-D array M is a record: M.shape = <<rows, columns>>, M.a[i][j] its
\* entries.

\* len(M): the size of the first axis.
len(M) == M.shape[1]

\* M.T.conj()
ConjT(M) ==
    [shape |-> <<M.shape[2], M.shape[1]>>,
     a |-> [i \in 1..M.shape[2] |-> [j \in 1..M.shape[1] |-> Conj(M.a[j][i])]]]

\* The stop index of the slice [:k] on an axis of length l.
SliceStop(l, k) == IF k < 0 THEN Max(0, l + k) ELSE Min(k, l)

\* M[:k] (also written M[:k, :])
Rows(M, k) ==
    [shape |-> <<SliceStop(M.shape[1], k), M.shape[2]>>,
     a |-> [i \in 1..SliceStop(M.shape[1], k) |-> [j \in 1..M.shape[2] |-> M.a[i][j]]]]

\* M[:, :k]
Cols(M, k) ==
    [shape |-> <<M.shape[1], SliceStop(M.shape[2], k)>>,
     a |-> [i \in 1..M.shape[1] |-> [j \in 1..SliceStop(M.shape[2], k) |-> M.a[i][j]]]]

\* x[:k] of a 1-D array held as a sequence
Take(x, k) == SubSeq(x, 1, SliceStop(Len(x), k))

RECURSIVE DotUpTo(_, _, _, _, _)
\* sum over t in 1..m of A[i][t] * B[t][j]
DotUpTo(A, B, i, j, m) ==
    IF m = 0 THEN CZero
    ELSE CAdd(DotUpTo(A, B, i, j, m - 1), CMul(A.a[i][m], B.a[m][j]))

\* Whether A @ B is defined (otherwise numpy raises ValueError).
CanMatMul(A, B) == A.shape[2] = B.shape[1]

\* A @ B
MatMul(A, B) ==
    [shape |-> <<A.shape[1], B.shape[2]>>,
     a |-> [i \in 1..A.shape[1] |->
              [j \in 1..B.shape[2] |-> DotUpTo(A, B, i, j, A.shape[2])]]]

\* ------------------------------------------------------------- the inputs

\* k orthonormal rows of length f: row r has one entry of modulus 1, at
\* column ((r - 1 + o) mod f) + 1, equal to 1 or i by the parity of r + o.
RowOrthonormal(f, k, o) ==
    [shape |-> <<k, f>>,
     a |-> [i \in 1..k |-> [j \in 1..f |->
              IF j = ((i - 1 + o) % f) + 1
              THEN (IF (i + o) % 2 = 0 THEN COne ELSE CI)
              ELSE CZero]]]

\* The descending spectrum of length k.
Spectrum(k) == [i \in 1..k |-> k + 1 - i]

\* The training matrices, each given by its shape and its thin SVD.
TrainingData ==
    UNION {
        {[shape |-> <<ns, nf>>, s |-> Spectrum(Min(ns, nf)),
          Vh |-> RowOrthonormal(nf, Min(ns, nf), o)] : o \in {0, 1}} :
        ns \in 1..MaxSamples, nf \in 1..MaxFeatures}

Methods == {"random", "scipy", "exact", "lapack"}

\* ------------------------------------------------------------- SVDBasis

Self == [V |-> V, Vh |-> Vh, s |-> s, n |-> n]

\* SVDBasis.__init__, lines 13-16
Unfitted == [V |-> None, Vh |-> None, s |-> None, n |-> None]

\* sklearn's randomized_svd(training_data, k, random_state=0): the k leading
\* components; no more than min(shape) exist.
randomized_svd(td, k) == [s |-> Take(td.s, k), Vh |-> Rows(td.Vh, k)]

\* scipy.linalg.svd(training_data, full_matrices=False): all min(shape)
\* components.
scipy_linalg_svd(td) == [s |-> td.s, Vh |-> td.Vh]

\* generate_basis, method == "random"
random_branch(td, k) ==
    LET nn == IF k = 0 THEN Min(td.shape[1], td.shape[2]) ELSE k
        r == randomized_svd(td, nn)
    IN  [V |-> Some(ConjT(r.Vh)), Vh |-> Some(r.Vh), s |-> Some(r.s), n |-> Some(nn)]

\* Variant: the requested n is stored when the basis is truncated, as the
\* random branch does.
scipy_branch_requested_n(td, k) ==
    LET r == scipy_linalg_svd(td)
        Vfull == ConjT(r.Vh)
        keepAll == (k = 0) \/ (k > len(Vfull))
        newV == IF keepAll THEN Vfull ELSE Cols(Vfull, k)
        newVh == IF keepAll THEN r.Vh ELSE Rows(r.Vh, k)
    IN  [V |-> Some(newV), Vh |-> Some(newVh), s |-> Some(r.s),
         n |-> Some(IF keepAll THEN len(newVh) ELSE k)]

\* generate_basis, method == "scipy"
scipy_branch(td, k) ==
    LET r == scipy_linalg_svd(td)
        Vfull == ConjT(r.Vh)
        keepAll == (k = 0) \/ (k > len(Vfull))
        newV == IF keepAll THEN Vfull ELSE Cols(Vfull, k)
        newVh == IF keepAll THEN r.Vh ELSE Rows(r.Vh, k)
    IN  [V |-> Some(newV), Vh |-> Some(newVh), s |-> Some(r.s), n |-> Some(len(newVh))]

\* Variant: the full-SVD branch is selected by the name "exact".
generate_basis_exact(self, td, k, method) ==
    IF method = "random" THEN [self |-> random_branch(td, k), raised |-> NoException]
    ELSE IF method = "exact" THEN [self |-> scipy_branch(td, k), raised |-> NoException]
    ELSE [self |-> self, raised |-> "ValueError"]

\* Variant: n is stored before the method is looked at.
generate_basis_partial(self, td, k, method) ==
    IF method = "random" THEN [self |-> random_branch(td, k), raised |-> NoException]
    ELSE IF method = "scipy" THEN [self |-> scipy_branch(td, k), raised |-> NoException]
    ELSE [self |-> [self EXCEPT !.n = Some(k)], raised |-> "ValueError"]

\* generate_basis(training_data, n, method): the basis after the call and
\* the exception raised, if any.
generate_basis(self, td, k, method) ==
    IF method = "random" THEN [self |-> random_branch(td, k), raised |-> NoException]
    ELSE IF method = "scipy" THEN [self |-> scipy_branch(td, k), raised |-> NoException]
    ELSE [self |-> self, raised |-> "ValueError"]

\* ---------------------------------------------------------- persistence

Absent == None

\* What a stored file or a dictionary holds under the keys "V", "s", "Vh"
\* and "n" (Absent: no such key).  V is a features x components matrix.
PersistedV ==
    {ConjT(RowOrthonormal(f, k, o)) :
        f \in 1..MaxFeatures, k \in 1..MaxFeatures, o \in {0, 1}}

PersistedS == {Spectrum(k) : k \in 1..MaxFeatures}

Containers ==
    {[V |-> v, s |-> sp, Vh |-> x[1], n |-> x[2]] :
        v \in {Some(M) : M \in {P \in PersistedV : P.shape[2] <= P.shape[1]}} \cup {Absent},
        sp \in {Some(x) : x \in PersistedS} \cup {Absent},
        x \in {<<Absent, Absent>>, <<Some(RowOrthonormal(1, 1, 0)), Some(0)>>}}

\* DingoDataset.from_dictionary / from_file with data_keys = ["V", "s"]:
\* the fields named by data_keys that the container holds are set, nothing
\* else is.
DingoDataset_load(self, c) ==
    [self EXCEPT !.V = IF c.V # Absent THEN c.V ELSE @,
                 !.s = IF c.s # Absent THEN c.s ELSE @]

\* Variant: Vh is derived from the loaded V, n is not.
from_dictionary_stale_n(self, dictionary) ==
    LET loaded == DingoDataset_load(self, dictionary)
    IN  IF loaded.V = None
        THEN [self |-> loaded, raised |-> "AttributeError"]
        ELSE [self |-> [loaded EXCEPT !.Vh = Some(ConjT(Val(loaded.V)))],
              raised |-> NoException]

\* from_dictionary(dictionary)
from_dictionary(self, dictionary) ==
    LET loaded == DingoDataset_load(self, dictionary)
    IN  IF loaded.V = None
        THEN [self |-> loaded, raised |-> "AttributeError"]
        ELSE [self |-> [loaded EXCEPT !.Vh = Some(ConjT(Val(loaded.V))),
                                       !.n = Some(Val(loaded.V).shape[2])],
              raised |-> NoException]

\* from_file(filename); file is what the file holds, None when there is
\* no such file.
from_file(self, file) ==
    IF file = None THEN [self |-> self, raised |-> "OSError"]
    ELSE LET loaded == DingoDataset_load(self, Val(file))
         IN  IF loaded.V = None
             THEN [self |-> loaded, raised |-> "AttributeError"]
             ELSE [self |-> [loaded EXCEPT !.Vh = Some(ConjT(Val(loaded.V))),
                                       !.n = Some(Val(loaded.V).shape[2])],
                   raised |-> NoException]

\* DingoDataset.__init__: loads from the file when one is named, else from
\* the dictionary when one is given.
DingoDataset_init(self, file, hasFile, dictionary) ==
    IF hasFile THEN from_file(self, file)
    ELSE IF dictionary # None THEN from_dictionary(self, Val(dictionary))
    ELSE [self |-> self, raised |-> NoException]

\* SVDBasis(file_name, dictionary)
SVDBasis_init(file, hasFile, dictionary) ==
    DingoDataset_init(Unfitted, file, hasFile, dictionary)

\* ------------------------------------------------------------ test_basis

\* Row r of a test (or waveform) array with d features.
TestRow(d, r) ==
    [shape |-> <<1, d>>,
     a |-> [i \in 1..1 |-> [j \in 1..d |-> IF (j + r) % 2 = 0 THEN COne ELSE CI]]]

RECURSIVE SumUpTo(_, _)
\* f[1] + ... + f[m]
SumUpTo(f, m) == IF m = 0 THEN 0 ELSE SumUpTo(f, m - 1) + f[m]

RECURSIVE MaxUpTo(_, _)
\* max(f[1], ..., f[m]), m >= 1
MaxUpTo(f, m) == IF m = 1 THEN f[1] ELSE Max(MaxUpTo(f, m - 1), f[m])

\* Lines 93-94: h_test @ V[:, :level] @ Vh[:level]
Reconstruct(self, h_test, level) ==
    MatMul(MatMul(h_test, Cols(Val(self.V), level)), Rows(Val(self.Vh), level))

\* sum of |x|^2 over a 1 x d array
NormSq(x) == SumUpTo([j \in 1..x.shape[2] |-> AbsSq(x.a[1][j])], x.shape[2])

\* Re(sum of conj(x) * y)
InnerRe(x, y) ==
    SumUpTo([j \in 1..x.shape[2] |-> CMul(Conj(x.a[1][j]), y.a[1][j])[1]], x.shape[2])

\* max |x - y|^2
MaxDevSq(x, y) ==
    MaxUpTo([j \in 1..x.shape[2] |-> AbsSq(CSub(x.a[1][j], y.a[1][j]))], x.shape[2])

\* Lines 95-98 for one h_test.  The mismatch 1 - inner / sqrt(norm1 * norm2)
\* is kept exactly, as inner and norm1 * norm2 with the means' common factor
\* 1/d cancelled.
Mismatch(h_test, h_reconstructed) ==
    [inner |-> InnerRe(h_test, h_reconstructed),
     norm12 |-> NormSq(h_test) * NormSq(h_reconstructed)]

\* Lines 92-100: the mismatches of the rows of test_data at one level.
Mismatches(self, rows, d, level) ==
    [r \in 1..rows |-> Mismatch(TestRow(d, r), Reconstruct(self, TestRow(d, r), level))]

\* Lines 92-99: max |h - h_rec| of each row, kept as its square.
MaxDeviations(self, rows, d, level) ==
    [r \in 1..rows |-> MaxDevSq(TestRow(d, r), Reconstruct(self, TestRow(d, r), level))]

\* Lines 102-103
Record(stats, level, mismatches, max_deviations) ==
    [stats EXCEPT !.mismatches = (level :> mismatches) @@ @,
                  !.max_deviations = (level :> max_deviations) @@ @]

\* Whether lines 93-94 raise for a row of d features at this level.
SampleRaises(self, d, level) ==
    \/ self.V = None
    \/ self.Vh = None
    \/ d # Val(self.V).shape[1]
    \/ ~ CanMatMul(Cols(Val(self.V), level), Rows(Val(self.Vh), level))

\* Variant: the level equal to the fitted n is skipped too.
Skips_at_n(self, level) == level >= Val(self.n)

\* Line 88: whether the level is skipped.
Skips(self, level) == level > Val(self.n)

\* The exception of lines 93-94 for a row of d features.
SampleError(self) ==
    IF self.V = None \/ self.Vh = None THEN "TypeError" ELSE "ValueError"

RECURSIVE test_loop(_, _, _, _, _, _)
\* The loop of lines 87-113 from position i of n_values on, over a test
\* array of `rows` rows and d features.
test_loop(self, rows, d, n_values, i, stats) ==
    IF i > Len(n_values) THEN [test_stats |-> stats, raised |-> NoException, at |-> None]
    ELSE IF self.n = None
    THEN [test_stats |-> stats, raised |-> "TypeError", at |-> Some(n_values[i])]
    ELSE IF Skips(self, n_values[i])
    THEN test_loop(self, rows, d, n_values, i + 1, stats)
    ELSE IF rows > 0 /\ SampleRaises(self, d, n_values[i])
    THEN [test_stats |-> stats, raised |-> SampleError(self), at |-> Some(n_values[i])]
    ELSE IF rows = 0
    THEN [test_stats |-> Record(stats, n_values[i], <<>>, <<>>),
          raised |-> "ValueError", at |-> Some(n_values[i])]
    ELSE test_loop(self, rows, d, n_values, i + 1,
                   Record(stats, n_values[i],
                          Mismatches(self, rows, d, n_values[i]),
                          MaxDeviations(self, rows, d, n_values[i])))

\* Variant: the statistics are handed back.
test_basis_return_stats(test_stats) == Some(test_stats)

\* What test_basis hands back to its caller: the function has no return
\* statement.
test_basis_return(test_stats) == None

\* test_basis(test_data, n_values, outfile)
test_basis(self, test_data, n_values, outfile) ==
    LET r == test_loop(self, test_data[1], test_data[2], n_values, 1,
                 [s |-> self.s, mismatches |-> <<>>, max_deviations |-> <<>>])
    IN  IF r.raised # NoException
        THEN [test_stats |-> r.test_stats, raised |-> r.raised, at |-> r.at,
              saved |-> None, ret |-> None]
        ELSE [test_stats |-> r.test_stats, raised |-> NoException, at |-> None,
              saved |-> IF outfile # NoOutfile THEN Some(r.test_stats) ELSE None,
              ret |-> test_basis_return(r.test_stats)]

\* ------------------------------------------------- compress, decompress

\* compress(data): data @ self.V
compress(self, data) ==
    IF self.V = None THEN [raised |-> "TypeError", value |-> None]
    ELSE IF ~ CanMatMul(data, Val(self.V)) THEN [raised |-> "ValueError", value |-> None]
    ELSE [raised |-> NoException, value |-> Some(MatMul(data, Val(self.V)))]

\* decompress(coefficients): coefficients @ self.Vh
decompress(self, coefficients) ==
    IF self.Vh = None THEN [raised |-> "TypeError", value |-> None]
    ELSE IF ~ CanMatMul(coefficients, Val(self.Vh))
    THEN [raised |-> "ValueError", value |-> None]
    ELSE [raised |-> NoException, value |-> Some(MatMul(coefficients, Val(self.Vh)))]

\* --------------------------------------------------------------- ApplySVD

\* The labels of a waveform mapping, in the order the mapping holds them.
WaveformKeys == <<"h_plus", "h_cross">>

Arrays == {TestRow(d, r) : d \in 1..MaxFeatures, r \in {0, 1}}

Waveforms ==
    UNION {[K -> Arrays] : K \in SUBSET {WaveformKeys[i] : i \in 1..Len(WaveformKeys)}}

\* Lines 192-195: the function the operator applies.
func(inverse, self, v) == IF ~ inverse THEN compress(self, v) ELSE decompress(self, v)

RECURSIVE comprehension(_, _, _, _, _)
\* Line 196, {k: func(v) for k, v in waveform.items()}, from the i-th label on.
comprehension(inverse, self, waveform, i, out) ==
    IF i > Len(WaveformKeys) THEN [ret |-> Some(out), raised |-> NoException]
    ELSE LET k == WaveformKeys[i]
         IN  IF k \notin DOMAIN waveform
             THEN comprehension(inverse, self, waveform, i + 1, out)
             ELSE LET r == func(inverse, self, waveform[k])
                  IN  IF r.raised # NoException THEN [ret |-> None, raised |-> r.raised]
                      ELSE comprehension(inverse, self, waveform, i + 1,
                                         (k :> Val(r.value)) @@ out)

RECURSIVE comprehension_skips(_, _, _, _, _)
\* Variant: an entry func raises on is left out.
comprehension_skips(inverse, self, waveform, i, out) ==
    IF i > Len(WaveformKeys) THEN [ret |-> Some(out), raised |-> NoException]
    ELSE IF WaveformKeys[i] \notin DOMAIN waveform
            \/ func(inverse, self, waveform[WaveformKeys[i]]).raised # NoException
    THEN comprehension_skips(inverse, self, waveform, i + 1, out)
    ELSE comprehension_skips(inverse, self, waveform, i + 1,
            (WaveformKeys[i] :> Val(func(inverse, self, waveform[WaveformKeys[i]]).value))
                @@ out)

ApplySVD_call_skips(inverse, self, waveform) ==
    LET r == comprehension_skips(inverse, self, waveform, 1, <<>>)
    IN  [ret |-> r.ret, raised |-> r.raised, waveform |-> waveform, self |-> self]

\* ApplySVD.__call__(waveform)
ApplySVD_call(inverse, self, waveform) ==
    LET r == comprehension(inverse, self, waveform, 1, <<>>)
    IN  [ret |-> r.ret, raised |-> r.raised, waveform |-> waveform, self |-> self]

\* ---------------------------------------------------------------- actions

NoCall == [op |-> "none"]

SetSelf(new) ==
    /\ V' = new.V
    /\ Vh' = new.Vh
    /\ s' = new.s
    /\ n' = new.n

\* A new SVDBasis takes the place of the one held.
Construct ==
    /\ call = NoCall
    /\ \E c \in {Some(x) : x \in Containers} \cup {None},
          how \in {"file_name", "dictionary", "neither"} :
        /\ how = "neither" => c = None
        /\ how = "dictionary" => c # None
        /\ LET r == SVDBasis_init(IF how = "file_name" THEN c ELSE None,
                                  how = "file_name",
                                  IF how = "dictionary" THEN c ELSE None)
           IN  /\ SetSelf(r.self)
               /\ call' = [op |-> "__init__", how |-> how, container |-> c,
                           raised |-> r.raised, before |-> Unfitted]
    /\ UNCHANGED transform

GenerateBasis ==
    /\ call = NoCall
    /\ \E td \in TrainingData, k \in 0..MaxN, method \in Methods :
        LET r == generate_basis(Self, td, k, method)
        IN  /\ SetSelf(r.self)
            /\ call' = [op |-> "generate_basis", training_data |-> td, n |-> k,
                        method |-> method, raised |-> r.raised, before |-> Self]
    /\ UNCHANGED transform

FromFile ==
    /\ call = NoCall
    /\ \E c \in {Some(x) : x \in Containers} \cup {None} :
        LET r == from_file(Self, c)
        IN  /\ SetSelf(r.self)
            /\ call' = [op |-> "from_file", container |-> c,
                        raised |-> r.raised, before |-> Self]
    /\ UNCHANGED transform

FromDictionary ==
    /\ call = NoCall
    /\ \E c \in Containers :
        LET r == from_dictionary(Self, c)
        IN  /\ SetSelf(r.self)
            /\ call' = [op |-> "from_dictionary", container |-> Some(c),
                        raised |-> r.raised, before |-> Self]
    /\ UNCHANGED transform

Levels == 1..MaxN

NValues == UNION {[1..m -> Levels] : m \in 0..MaxLevels}

TestData == (0..MaxTestRows) \X (1..MaxFeatures)

TestBasis ==
    /\ call = NoCall
    /\ \E test_data \in TestData, n_values \in NValues, outfile \in {NoOutfile, "test_stats.npy"} :
        LET r == test_basis(Self, test_data, n_values, outfile)
        IN  call' = [op |-> "test_basis", test_data |-> test_data, n_values |-> n_values,
                     outfile |-> outfile, test_stats |-> r.test_stats, raised |-> r.raised,
                     at |-> r.at, saved |-> r.saved, ret |-> r.ret, before |-> Self]
    /\ UNCHANGED <<V, Vh, s, n, transform>>

Apply ==
    /\ call = NoCall
    /\ transform # None
    /\ \E waveform \in Waveforms :
        LET r == ApplySVD_call(Val(transform).inverse, Self, waveform)
        IN  /\ SetSelf(r.self)
            /\ call' = [op |-> "ApplySVD", inverse |-> Val(transform).inverse,
                        waveform |-> waveform, waveform_after |-> r.waveform,
                        ret |-> r.ret, raised |-> r.raised, before |-> Self]
    /\ UNCHANGED transform

\* The caller moves on to its next statement.
Return ==
    /\ call # NoCall
    /\ call' = NoCall
    /\ UNCHANGED <<V, Vh, s, n, transform>>

\* A basis constructed with no file and no dictionary; no transform operator.
Init ==
    /\ V = None
    /\ Vh = None
    /\ s = None
    /\ n = None
    /\ transform = None
    /\ call = NoCall

\* The same basis, wrapped by ApplySVD(svd_basis, inverse) (lines 178-179).
InitApply ==
    /\ V = None
    /\ Vh = None
    /\ s = None
    /\ n = None
    /\ transform \in {Some([inverse |-> inverse]) : inverse \in BOOLEAN}
    /\ call = NoCall

\* The basis' life: construction, fits and loads.
Next ==
    \/ Construct
    \/ GenerateBasis
    \/ FromFile
    \/ FromDictionary
    \/ Return

Spec == Init /\ [][Next]_vars

\* Fits and loads, and tests of the basis.
NextTest ==
    \/ GenerateBasis
    \/ FromDictionary
    \/ TestBasis
    \/ Return

SpecTest == Init /\ [][NextTest]_vars

\* Fits and loads, and applications of the transform operator.
NextApply ==
    \/ GenerateBasis
    \/ FromDictionary
    \/ Apply
    \/ Return

SpecApply == InitApply /\ [][NextApply]_vars

\* ------------------------------------------------------------- properties

Fitted == V # None /\ Vh # None /\ s # None /\ n # None

IsConjT(A, B) ==
    /\ A.shape = <<B.shape[2], B.shape[1]>>
    /\ \A i \in 1..B.shape[1], j \in 1..B.shape[2] :
        A.a[j][i] = <<B.a[i][j][1], 0 - B.a[i][j][2]>>

Fit == call.op = "generate_basis" /\ call.raised = NoException

\* C1: the basis is unfitted (V, Vh, n all None) or Vh is the conjugate
\* transpose of V and n == V.shape[1] == Vh.shape[0].
C1_DerivedFieldsAgree ==
    \/ V = None /\ Vh = None /\ n = None
    \/ /\ V # None /\ Vh # None /\ n # None
       /\ IsConjT(Val(Vh), Val(V))
       /\ Val(n) = Val(V).shape[2]
       /\ Val(n) = Val(Vh).shape[1]

\* C2 as claimed: generate_basis accepts exactly "random" and "exact", and
\* with "exact" it stores the full decomposition's spectrum and is fitted.
C2_AcceptsRandomAndExact ==
    call.op = "generate_basis" =>
        /\ call.raised = NoException <=> call.method \in {"random", "exact"}
        /\ call.method = "exact" => Fitted /\ s = Some(call.training_data.s)

\* C2 as amended: generate_basis accepts exactly "random" and "scipy"; with
\* "scipy" it does not raise, runs the full-SVD branch (the whole spectrum
\* is stored) and leaves the basis fitted.
C2_AcceptsRandomAndScipy ==
    call.op = "generate_basis" =>
        /\ call.raised = NoException <=> call.method \in {"random", "scipy"}
        /\ call.method = "scipy" => Fitted /\ s = Some(call.training_data.s)

C2_Witness ==
    /\ Fit
    /\ call.method = "scipy"
    /\ call.n = 1
    /\ Len(call.training_data.s) = 2

\* C3 as claimed: every method name other than "random" and "exact" raises
\* the unsupported-method error and leaves V, Vh, s and n as they were.
C3_UnsupportedUnlessRandomOrExact ==
    (call.op = "generate_basis" /\ call.method \notin {"random", "exact"}) =>
        call.raised = "ValueError" /\ Self = call.before

\* C3 as amended: every method name other than "random" and "scipy" raises
\* the unsupported-method error and leaves V, Vh, s and n as they were.
C3_UnsupportedUnlessRandomOrScipy ==
    (call.op = "generate_basis" /\ call.method \notin {"random", "scipy"}) =>
        call.raised = "ValueError" /\ Self = call.before

C3_Witness ==
    /\ call.op = "generate_basis"
    /\ call.raised = "ValueError"
    /\ call.before.V # None
    /\ call.n # Val(call.before.n)

\* C4: after a successful 'random' fit the basis holds exactly n components
\* when n > 0 and min(n_samples, n_features) when n == 0: V has that many
\* columns, Vh that many rows, and the stored n is that number.
C4_RandomComponentCount ==
    (Fit /\ call.method = "random") =>
        LET c == IF call.n > 0 THEN call.n
                 ELSE Min(call.training_data.shape[1], call.training_data.shape[2])
        IN  /\ Val(V).shape[2] = c
            /\ Val(Vh).shape[1] = c
            /\ n = Some(c)

\* C5: after a successful full-SVD fit with k = min(n_samples, n_features),
\* the basis keeps the first n components when 0 < n <= k and all k when
\* n == 0 or n > k: Vh is the first rows of the full Vh, V the first columns
\* of the full V, and the stored n is the number kept.
C5_ExactTruncation ==
    (Fit /\ call.method = "scipy") =>
        LET full == call.training_data.Vh
            k == Min(call.training_data.shape[1], call.training_data.shape[2])
            f == call.training_data.shape[2]
            keep == IF 0 < call.n /\ call.n <= k THEN call.n ELSE k
        IN  /\ n = Some(keep)
            /\ Val(Vh).shape = <<keep, f>>
            /\ Val(V).shape = <<f, keep>>
            /\ \A i \in 1..keep, j \in 1..f :
                /\ Val(Vh).a[i][j] = full.a[i][j]
                /\ Val(V).a[j][i] = <<full.a[i][j][1], 0 - full.a[i][j][2]>>

\* Fewer samples than features, and more components asked for than exist
\* but no more than there are features.
C5_Witness ==
    /\ Fit
    /\ call.method = "scipy"
    /\ call.training_data.shape[1] < call.training_data.shape[2]
    /\ call.n > call.training_data.shape[1]
    /\ call.n <= call.training_data.shape[2]

Requested == {call.n_values[i] : i \in 1..Len(call.n_values)}

\* C6: on a fitted basis test_basis never raises at a level greater than the
\* fitted n, and when it completes its statistics have a mismatches and a
\* max_deviations entry for exactly the requested levels that do not exceed
\* the fitted n; no level above it is ever recorded.
C6_LevelsAboveNSkipped ==
    (call.op = "test_basis" /\ n # None) =>
        LET kept == {l \in Requested : l <= Val(n)}
        IN  /\ call.raised # NoException => Val(call.at) \in kept
            /\ call.raised = NoException =>
                /\ DOMAIN call.test_stats.mismatches = kept
                /\ DOMAIN call.test_stats.max_deviations = kept
            /\ DOMAIN call.test_stats.mismatches \subseteq kept
            /\ DOMAIN call.test_stats.max_deviations \subseteq kept

C6_Witness ==
    /\ call.op = "test_basis"
    /\ n # None
    /\ call.raised = NoException
    /\ call.test_data[1] > 0
    /\ \E l \in Requested : l > Val(n)
    /\ \E l \in Requested : l <= Val(n)

\* C7 as claimed: test_basis returns the statistics it built to its caller.
C7_ReturnsStatistics ==
    (call.op = "test_basis" /\ call.raised = NoException) =>
        call.ret = Some(call.test_stats)

\* C7 as amended: test_basis returns None; the statistics it built (the
\* singular values and the per-level mismatches and max deviations) are
\* written to the outfile when one is given and are otherwise dropped.
C7_ReturnsNoneSavesToOutfile ==
    (call.op = "test_basis" /\ call.raised = NoException) =>
        /\ call.ret = None
        /\ call.test_stats.s = s
        /\ call.outfile # NoOutfile => call.saved = Some(call.test_stats)
        /\ call.outfile = NoOutfile => call.saved = None

C7_Witness ==
    /\ call.op = "test_basis"
    /\ call.raised = NoException
    /\ call.outfile = NoOutfile
    /\ DOMAIN call.test_stats.mismatches # {}

Load ==
    /\ call.op \in {"from_file", "from_dictionary", "__init__"}
    /\ call.op = "__init__" => call.how # "neither"
    /\ call.raised = NoException

\* C8: after every successful from_file or from_dictionary (the constructor's
\* included), V is the loaded V, Vh is its conjugate transpose and n its
\* column count, whatever Vh and n were before and whatever the persisted
\* data holds under "Vh" and "n".
C8_DerivedAfterLoad ==
    Load =>
        /\ V # None
        /\ Val(call.container).V # Absent => V = Val(call.container).V
        /\ Vh # None
        /\ IsConjT(Val(Vh), Val(V))
        /\ n = Some(Val(V).shape[2])

\* A load onto a basis that held another number of components, from data
\* that carries a Vh and an n of its own.
C8_Witness ==
    /\ Load
    /\ call.op = "from_dictionary"
    /\ call.before.n # None
    /\ call.before.n # n
    /\ Val(call.container).Vh # Absent
    /\ Val(call.container).Vh # Vh

Operand == IF call.inverse THEN Vh ELSE V

Applies(k) == Operand # None /\ CanMatMul(call.waveform[k], Val(Operand))

\* C9: an ApplySVD call either returns a mapping with the input's keys whose
\* value at k is input[k] @ V (inverse=False) or input[k] @ Vh (inverse=True),
\* or fails as a whole, which it does exactly when some entry cannot be
\* transformed; the input mapping and the basis are left as they were.
C9_AllOrNothing ==
    call.op = "ApplySVD" =>
        /\ Self = call.before
        /\ call.waveform_after = call.waveform
        /\ call.inverse = Val(transform).inverse
        /\ call.raised = NoException <=> \A k \in DOMAIN call.waveform : Applies(k)
        /\ call.raised # NoException => call.ret = None
        /\ call.raised = NoException =>
            /\ call.ret # None
            /\ DOMAIN Val(call.ret) = DOMAIN call.waveform
            /\ \A k \in DOMAIN call.waveform :
                /\ Val(call.ret)[k].shape = <<1, Val(Operand).shape[2]>>
                /\ \A j \in 1..Val(Operand).shape[2] :
                    Val(call.ret)[k].a[1][j] =
                        DotUpTo(call.waveform[k], Val(Operand), 1, j, Val(Operand).shape[1])

\* One entry fits the basis and another does not.
C9_Witness ==
    /\ call.op = "ApplySVD"
    /\ call.raised = "ValueError"
    /\ \E k \in DOMAIN call.waveform : Applies(k)
    /\ \E k \in DOMAIN call.waveform : ~ Applies(k)

\* C10, in the case it singles out: after a successful full-SVD fit the
\* stored singular values have as many entries as the basis has components,
\* len(s) == n == V.shape[1], so a fit truncated to n components stores n
\* singular values.
C10_SpectrumLength ==
    (Fit /\ call.method = "scipy") =>
        Len(Val(s)) = Val(n) /\ Val(n) = Val(V).shape[2]

====
